---- MODULE Spec2Model ----
(***************************************************************************)
(* A model of the language server of 4_LSP_Server/src/main.rs: the         *)
(* Document Store (document_map, ast_map), the Component Index             *)
(* (components), the background workspace scan spawned by initialize, and  *)
(* the completion / goto_definition request handlers.                      *)
(*                                                                         *)
(* Granularity.  The handlers of Backend are futures polled by the one     *)
(* task that runs Server::serve, so two handlers interleave only at an     *)
(* .await that can be pending (client.log_message); on_change, completion  *)
(* and goto_definition contain no such point and are one step each.  The   *)
(* scan is a task of its own (tokio::spawn) that shares only components    *)
(* with the handlers; each DashMap operation on it is one step.            *)
(***************************************************************************)
EXTENDS Integers, Sequences, FiniteSets, TLC

(***************************************************************************)
(* Text.  A text is a sequence of characters (one-character strings); its  *)
(* UTF-8 encoding is a sequence of bytes.  Every character is one byte     *)
(* wide except E2, which stands for a two-byte character such as U+00E9.   *)
(***************************************************************************)
E2 == "E"

Utf8Char(c) ==
    IF c = E2 THEN <<"E#1", "E#2">> ELSE <<c>>

RECURSIVE Utf8(_)
Utf8(text) ==
    IF text = <<>> THEN <<>> ELSE Utf8Char(Head(text)) \o Utf8(Tail(text))

Whitespace == {" ", "\n"}
TagNameBytes == {"a", "b", "c", "-"}
AttrNameStop == {"<", ">", "\"", "'", "/", "="} \cup Whitespace
TextStop == {"<", ">", "&"}

(***************************************************************************)
(* Syntax trees.  A node is [kind, named, start, end, children]; start and *)
(* end are byte offsets into the encoded text, as tree_sitter::Node's      *)
(* start_byte() and end_byte().  Anonymous tokens ("<", ">", "/>", "</")   *)
(* are nodes too: a TreeCursor visits them.                                *)
(*                                                                         *)
(* ParseHtml follows the grammar of tree-sitter-html for the subset        *)
(*   fragment  := node*                                                    *)
(*   node      := element | text                                           *)
(*   element   := start_tag node* (end_tag | end of input)                 *)
(*              | self_closing_tag                                         *)
(*   start_tag := "<" tag_name attribute* ">"                              *)
(*   self_closing_tag := "<" tag_name attribute* "/>"                      *)
(*   end_tag   := "</" tag_name ">"                                        *)
(*   attribute := attribute_name                                           *)
(* with whitespace between tokens belonging to no node, an end tag closing *)
(* the innermost open element and the end of the input closing them all.   *)
(* The parser's error recovery is outside the subset: input that leaves it *)
(* yields a node of kind ERROR, and no text of Texts does.                 *)
(***************************************************************************)
Eof == "EOF"

At(b, p) ==
    IF p < Len(b) THEN b[p + 1] ELSE Eof

Leaf(kind, named, s, e) ==
    [kind |-> kind, named |-> named, start |-> s, end |-> e, children |-> <<>>]

Inner(kind, kids) ==
    [kind |-> kind, named |-> TRUE, start |-> kids[1].start,
     end |-> kids[Len(kids)].end, children |-> kids]

RECURSIVE SkipWs(_, _)
SkipWs(b, p) ==
    IF At(b, p) \in Whitespace THEN SkipWs(b, p + 1) ELSE p

RECURSIVE ScanIn(_, _, _)
ScanIn(b, p, S) ==
    IF At(b, p) \in S THEN ScanIn(b, p + 1, S) ELSE p

RECURSIVE ScanNotIn(_, _, _)
ScanNotIn(b, p, S) ==
    IF At(b, p) \notin (S \cup {Eof}) THEN ScanNotIn(b, p + 1, S) ELSE p

RECURSIVE TrimEnd(_, _, _)
TrimEnd(b, s, e) ==
    IF e > s /\ b[e] \in Whitespace THEN TrimEnd(b, s, e - 1) ELSE e

\* The tokens of the input from byte p on, appended to acc; inTag tells
\* whether p lies between a tag's name and its closing ">" or "/>".
RECURSIVE Lex(_, _, _, _)
LexRun(b, q, e, inTag, kind, acc) ==
    IF e > q THEN Lex(b, e, inTag, Append(acc, Leaf(kind, TRUE, q, e)))
    ELSE Append(acc, Leaf("ERROR", TRUE, q, Len(b)))

LexAt(b, q, inTag, acc) ==
    IF At(b, q) = Eof THEN acc
    ELSE IF inTag /\ At(b, q) = ">"
    THEN Lex(b, q + 1, FALSE, Append(acc, Leaf(">", FALSE, q, q + 1)))
    ELSE IF inTag /\ At(b, q) = "/" /\ At(b, q + 1) = ">"
    THEN Lex(b, q + 2, FALSE, Append(acc, Leaf("/>", FALSE, q, q + 2)))
    ELSE IF inTag
    THEN LexRun(b, q, ScanNotIn(b, q, AttrNameStop), TRUE, "attribute_name", acc)
    ELSE IF At(b, q) = "<" /\ At(b, q + 1) = "/"
    THEN LexRun(b, q + 2, ScanIn(b, q + 2, TagNameBytes), TRUE, "tag_name",
                Append(acc, Leaf("</", FALSE, q, q + 2)))
    ELSE IF At(b, q) = "<"
    THEN LexRun(b, q + 1, ScanIn(b, q + 1, TagNameBytes), TRUE, "tag_name",
                Append(acc, Leaf("<", FALSE, q, q + 1)))
    ELSE LexRun(b, q, TrimEnd(b, q, ScanNotIn(b, q, TextStop)), FALSE, "text", acc)

Lex(b, p, inTag, acc) ==
    LexAt(b, SkipWs(b, p), inTag, acc)

\* The tokens grouped into tags: cur holds the nodes of the tag being read.
TagKind(cur, close) ==
    IF close = "/>" THEN "self_closing_tag"
    ELSE IF cur[1].kind = "</" THEN "end_tag"
    ELSE "start_tag"

RECURSIVE GroupTags(_, _, _, _)
GroupTags(toks, i, cur, acc) ==
    IF i > Len(toks)
    THEN IF cur = <<>> THEN acc
         ELSE Append(acc, Leaf("ERROR", TRUE, cur[1].start, cur[Len(cur)].end))
    ELSE IF toks[i].kind \in {"<", "</"}
    THEN GroupTags(toks, i + 1, <<toks[i]>>, acc)
    ELSE IF toks[i].kind \in {">", "/>"}
    THEN GroupTags(toks, i + 1, <<>>,
                   Append(acc, Inner(TagKind(cur, toks[i].kind),
                                     Append(cur, toks[i]))))
    ELSE IF toks[i].kind = "tag_name"
    THEN GroupTags(toks, i + 1, Append(cur, toks[i]), acc)
    ELSE IF toks[i].kind = "attribute_name"
    THEN GroupTags(toks, i + 1, Append(cur, Inner("attribute", <<toks[i]>>)), acc)
    ELSE GroupTags(toks, i + 1, cur, Append(acc, toks[i]))

\* The tags and texts nested into elements: stack holds, innermost last, the
\* children read so far of each open element, under those of the fragment.
AppendTop(stack, node) ==
    [stack EXCEPT ![Len(stack)] = Append(@, node)]

CloseTop(stack, last) ==
    AppendTop(SubSeq(stack, 1, Len(stack) - 1),
              Inner("element", stack[Len(stack)] \o last))

RECURSIVE Nest(_, _, _)
Nest(items, i, stack) ==
    IF i > Len(items)
    THEN IF Len(stack) = 1 THEN stack[1]
         ELSE Nest(items, i, CloseTop(stack, <<>>))
    ELSE IF items[i].kind = "start_tag"
    THEN Nest(items, i + 1, Append(stack, <<items[i]>>))
    ELSE IF items[i].kind = "self_closing_tag"
    THEN Nest(items, i + 1, AppendTop(stack, Inner("element", <<items[i]>>)))
    ELSE IF items[i].kind = "end_tag" /\ Len(stack) > 1
    THEN Nest(items, i + 1, CloseTop(stack, <<items[i]>>))
    ELSE IF items[i].kind = "end_tag"
    THEN Nest(items, i + 1,
              AppendTop(stack, [items[i] EXCEPT !.kind = "erroneous_end_tag"]))
    ELSE Nest(items, i + 1, AppendTop(stack, items[i]))

Fragment(kids, len) ==
    [kind |-> "fragment", named |-> TRUE,
     start |-> IF kids = <<>> THEN len ELSE kids[1].start,
     end |-> len, children |-> kids]

\* Backend::parse_html: the tree of a text, rooted in a fragment node that
\* ends at the end of the input.
ParseHtml(text) ==
    Fragment(Nest(GroupTags(Lex(Utf8(text), 0, FALSE, <<>>), 1, <<>>, <<>>),
                  1, <<<<>>>>),
             Len(Utf8(text)))

(***************************************************************************)
(* Options and maps.  Option<T> is <<>> (None) or <<x>> (Some(x)); a       *)
(* DashMap is a function whose domain is the set of its keys.              *)
(***************************************************************************)
Some(x) == <<x>>

MapGet(m, k) ==
    IF k \in DOMAIN m THEN Some(m[k]) ELSE <<>>

MapInsert(m, k, v) ==
    [x \in DOMAIN m \cup {k} |-> IF x = k THEN v ELSE m[x]]

MapRemove(m, k) ==
    [x \in DOMAIN m \ {k} |-> m[x]]

EmptyMap == [x \in {} |-> x]

(***************************************************************************)
(* ropey::Rope, read as the handlers read it: character indices.           *)
(***************************************************************************)
RECURSIVE CountBreaks(_)
CountBreaks(text) ==
    IF text = <<>> THEN 0
    ELSE (IF Head(text) = "\n" THEN 1 ELSE 0) + CountBreaks(Tail(text))

\* Rope::len_lines: one more than the number of line breaks.
LenLines(text) == CountBreaks(text) + 1

\* The character index at which line `line` starts, for line < LenLines(text).
RECURSIVE LineStart(_, _, _)
LineStart(text, line, i) ==
    IF line = 0 THEN i
    ELSE LineStart(text, IF text[i + 1] = "\n" THEN line - 1 ELSE line, i + 1)

\* Rope::try_line_to_char: an error past one-past-the-last line, the length
\* in characters for the line one past the last.
TryLineToChar(text, line) ==
    IF line > LenLines(text) THEN <<>>
    ELSE IF line = LenLines(text) THEN Some(Len(text))
    ELSE Some(LineStart(text, line, 0))

\* Rope::slice(a..b) panics unless a <= b <= len_chars().
SliceInBounds(text, a, b) == a <= b /\ b <= Len(text)

\* Rope::slice(a..b).as_str(): the characters a..b-1 (a short text is one chunk).
Slice(text, a, b) == SubSeq(text, a + 1, b)

(***************************************************************************)
(* find_node: the cursor starts on `node`, which has no sibling to move    *)
(* to; below it, it walks the children left to right and goes down into    *)
(* the first one whose span holds the offset.                              *)
(***************************************************************************)
SpanHolds(node, offset) ==
    node.start <= offset /\ offset <= node.end

RECURSIVE Walk(_, _, _, _)
Walk(siblings, i, offset, types) ==
    LET node == siblings[i]
    IN  IF SpanHolds(node, offset)
        THEN IF node.kind \in types THEN Some(node)
             ELSE IF node.children = <<>> THEN <<>>
             ELSE Walk(node.children, 1, offset, types)
        ELSE IF i = Len(siblings) THEN <<>>
             ELSE Walk(siblings, i + 1, offset, types)

\* find_node as it would be if the cursor never left the node it starts on.
find_node_no_descent(node, offset, types) ==
    IF SpanHolds(node, offset) /\ node.kind \in types THEN Some(node) ELSE <<>>

find_node(node, offset, types) ==
    Walk(<<node>>, 1, offset, types)

\* Node::named_child(0)
RECURSIVE FirstNamed(_, _)
FirstNamed(kids, i) ==
    IF i > Len(kids) THEN <<>>
    ELSE IF kids[i].named THEN Some(kids[i])
    ELSE FirstNamed(kids, i + 1)

NamedChild0(node) == FirstNamed(node.children, 1)

(***************************************************************************)
(* Names are sequences of characters, so that a slice of a document can be *)
(* looked up as a selector and a decorator name can be matched.            *)
(***************************************************************************)
NmInput == <<"I", "n", "p", "u", "t">>
NmOutput == <<"O", "u", "t", "p", "u", "t">>
NmHostInput == <<"H">> \o NmInput
NmAB == <<"a", "b">>
NmB == <<"b">>
NmC == <<"c">>

\* Whether `pat` occurs in `name` (an unanchored regular expression of one word).
Occurs(pat, name) ==
    \E i \in 0..(Len(name) - Len(pat)) : SubSeq(name, i + 1, i + Len(pat)) = pat

\* INOUT_QUERY_STRING's predicate (#match? @dec-name "Input|Output").
InOutMatch(dec) == Occurs(NmInput, dec) \/ Occurs(NmOutput, dec)

\* FIND_COMPONENT_QUERY_STRING: a class matches once for each pair of its
\* decorator's object whose key is selector, if the decorator is Component.
RECURSIVE SelectorsOf(_)
SelectorsOf(pairs) ==
    IF pairs = <<>> THEN <<>>
    ELSE (IF Head(pairs).key = "selector" THEN <<Head(pairs).value>> ELSE <<>>)
            \o SelectorsOf(Tail(pairs))

\* analyze_file's inner loop: the members the second query matches, in
\* source order, filed under inputs when the decorator is exactly Input and
\* under outputs otherwise.
RECURSIVE Classify(_, _)
Classify(members, wantInput) ==
    IF members = <<>> THEN <<>>
    ELSE LET m == Head(members)
             here == IF InOutMatch(m.dec) /\ ((m.dec = NmInput) = wantInput)
                     THEN <<m.name>> ELSE <<>>
         IN  here \o Classify(Tail(members), wantInput)

\* The Component records analyze_file builds for one class, in match order.
ComponentsOfClass(path, class) ==
    LET sels == IF class.dec = "Component" THEN SelectorsOf(class.pairs) ELSE <<>>
    IN  [i \in 1..Len(sels) |->
            [selector |-> sels[i],
             file_url |-> path,
             class_name_range |-> class.class_name_range,
             inputs |-> Classify(class.members, TRUE),
             outputs |-> Classify(class.members, FALSE)]]

RECURSIVE ComponentsOfFile(_, _)
ComponentsOfFile(path, classes) ==
    IF classes = <<>> THEN <<>>
    ELSE ComponentsOfClass(path, Head(classes))
            \o ComponentsOfFile(path, Tail(classes))

(***************************************************************************)
(* The workspace the scan walks: what glob yields for <root>/src/**/*.ts,  *)
(* in order.  An entry is a glob error or a path; a path's file holds      *)
(* classes, and reading it may fail where `fragile` is set (a file that    *)
(* is not UTF-8, or that disappears or loses its permissions meanwhile).   *)
(***************************************************************************)
Rng(l, a, b) == [start |-> [line |-> l, character |-> a],
                 end |-> [line |-> l, character |-> b]]

ClassAB ==
    [dec |-> "Component",
     pairs |-> <<[key |-> "selector", value |-> NmAB],
                 [key |-> "template", value |-> NmC]>>,
     class_name_range |-> Rng(2, 13, 16),
     members |-> <<[dec |-> NmInput, name |-> <<"v">>],
                   [dec |-> NmOutput, name |-> <<"e">>],
                   [dec |-> <<"H", "o", "s", "t">>, name |-> <<"h">>],
                   [dec |-> NmHostInput, name |-> <<"w">>]>>]

ClassB ==
    [dec |-> "Component",
     pairs |-> <<[key |-> "selector", value |-> NmB]>>,
     class_name_range |-> Rng(1, 13, 14),
     members |-> <<>>]

ClassAB2 ==
    [dec |-> "Component",
     pairs |-> <<[key |-> "selector", value |-> NmAB]>>,
     class_name_range |-> Rng(4, 13, 17),
     members |-> <<[dec |-> NmInput, name |-> <<"x">>]>>]

ClassService ==
    [dec |-> "Injectable",
     pairs |-> <<>>,
     class_name_range |-> Rng(9, 13, 20),
     members |-> <<>>]

ClassC ==
    [dec |-> "Component",
     pairs |-> <<[key |-> "selector", value |-> NmC]>>,
     class_name_range |-> Rng(12, 13, 14),
     members |-> <<[dec |-> NmOutput, name |-> <<"f">>]>>]

ClassC2 ==
    [dec |-> "Component",
     pairs |-> <<[key |-> "selector", value |-> NmC]>>,
     class_name_range |-> Rng(20, 13, 15),
     members |-> <<[dec |-> NmInput, name |-> <<"g">>]>>]

Workspace ==
    <<[kind |-> "path", path |-> "file:///w/src/a.ts", fragile |-> FALSE,
       classes |-> <<ClassAB>>],
      [kind |-> "error", path |-> "", fragile |-> FALSE, classes |-> <<>>],
      [kind |-> "path", path |-> "file:///w/src/b.ts", fragile |-> TRUE,
       classes |-> <<ClassB>>],
      [kind |-> "path", path |-> "file:///w/src/c.ts", fragile |-> FALSE,
       classes |-> <<ClassService, ClassAB2, ClassC, ClassC2>>]>>

\* The matches of the component query in entry i, as Component records.
Matches(i) == ComponentsOfFile(Workspace[i].path, Workspace[i].classes)

(***************************************************************************)
(* The request handlers' computations.  A result is [outcome, value]:      *)
(* outcome "panic" when Rope::slice is called out of bounds, which unwinds *)
(* through the handler.                                                    *)
(***************************************************************************)
Ok(v) == [outcome |-> "ok", value |-> v]
Panic == [outcome |-> "panic", value |-> <<>>]

\* completion's first branch: one item per entry, in the map's iteration order.
TagItems(components, order) ==
    [i \in 1..Len(order) |->
        [label |-> components[order[i]].selector, kind |-> "KEYWORD",
         insert_text |-> <<>>, insert_text_format |-> <<>>]]

\* make_completions(elements, template), the template given by its two ends.
make_completions(elements, open, close) ==
    [i \in 1..Len(elements) |->
        [label |-> elements[i], kind |-> "FIELD",
         insert_text |-> Some(<<open>> \o elements[i]
                                 \o <<close, "=", "\"", "$", "0", "\"">>),
         insert_text_format |-> Some("SNIPPET")]]

AttrItems(component) ==
    make_completions(component.inputs, "[", "]")
       \o make_completions(component.outputs, "(", ")")

\* fn completion(node, offset, rope, components)
completion(node, offset, rope, components, order) ==
    LET start_tag == find_node(node, offset, {"start_tag", "self_closing_tag"})
    IN  IF start_tag = <<>> THEN Ok(<<>>)
        ELSE IF find_node(start_tag[1], offset, {"tag_name"}) # <<>>
        THEN Ok(TagItems(components, order))
        ELSE LET attr_name == find_node(start_tag[1], offset, {"attribute_name"})
                 name == NamedChild0(start_tag[1])
             IN  IF attr_name = <<>> \/ name = <<>> THEN Ok(<<>>)
                 ELSE IF ~SliceInBounds(rope, name[1].start, name[1].end)
                 THEN Panic
                 ELSE LET tag_name == Slice(rope, name[1].start, name[1].end)
                      IN  IF tag_name \in DOMAIN components
                          THEN Ok(AttrItems(components[tag_name]))
                          ELSE Ok(<<>>)

\* Backend::completion's closure: Option<Vec<CompletionItem>>.
CompletionResult(rope, ast, line, character, components, order) ==
    IF rope = <<>> \/ ast = <<>> THEN Ok(<<>>)
    ELSE LET char == TryLineToChar(rope[1], line)
         IN  IF char = <<>> THEN Ok(<<>>)
             ELSE LET r == completion(ast[1], char[1] + character, rope[1],
                                      components, order)
                  IN  IF r.outcome = "panic" THEN Panic ELSE Ok(Some(r.value))

\* Backend::goto_definition's closure: Option<Location>.
DefinitionResult(rope, ast, line, character, components) ==
    IF ast = <<>> \/ rope = <<>> THEN Ok(<<>>)
    ELSE LET line_position == TryLineToChar(rope[1], line)
         IN  IF line_position = <<>> THEN Ok(<<>>)
             ELSE LET node == find_node(ast[1], line_position[1] + character,
                                        {"tag_name"})
                  IN  IF node = <<>> THEN Ok(<<>>)
                      ELSE IF ~SliceInBounds(rope[1], node[1].start, node[1].end)
                      THEN Panic
                      ELSE LET tag_name == Slice(rope[1], node[1].start, node[1].end)
                           IN  IF tag_name \in DOMAIN components
                               THEN Ok(Some([uri |-> components[tag_name].file_url,
                                             range |-> components[tag_name].class_name_range]))
                               ELSE Ok(<<>>)

(***************************************************************************)
(* Inputs.                                                                 *)
(***************************************************************************)
Uris == {"u1", "u2"}

TxTag == <<"<", "a", "b", " ", "c", ">">>
TxB == <<"<", "b", ">">>
TxClosed == <<"<", "b", ">", "<", "/", "b", ">">>
TxSelf == <<"<", "a", "b", " ", "c", "/", ">">>
TxLines == <<"<", "b", ">", "\n", "<", "a", "b", " ", "c", ">">>
TxWide1 == <<E2, "<", "a", "b", ">">>
TxWide2 == <<E2, E2, "<", "a", "b", ">">>
TxPlain == <<"a", "b">>
TxWideAttr == <<E2, "<", "a", "b", " ", "c", ">">>

\* The contents the editor sends: Texts where requests are studied one at a
\* time, SmallTexts where the handlers interleave.
Texts == {TxTag, TxB, TxClosed, TxSelf, TxLines, TxWide1, TxWide2, TxPlain,
          TxWideAttr, <<>>}
SmallTexts == {TxTag, TxB}

MaxLine == 2
MaxCol == 7
MaxInFlight == 2

Positions == (0..MaxLine) \X (0..MaxCol)
ProbePositions == {<<0, 2>>, <<0, 5>>}

\* The orders in which DashMap::iter may yield the keys of a map.
Orders(S) ==
    {f \in [1..Cardinality(S) -> S] : \A i, j \in DOMAIN f : f[i] = f[j] => i = j}

(***************************************************************************)
(* State.                                                                  *)
(*   server        "uninit" until initialize, then "running"; "crashed"    *)
(*                 once a handler has panicked                             *)
(*   components    Backend::components, the Component Index                *)
(*   document_map, ast_map   the Document Store                            *)
(*   pending       the did_open / did_change handlers suspended at their   *)
(*                 log_message await, in order of arrival                  *)
(*   scan          the spawned scan: pc, the number of workspace folders   *)
(*                 it was given, the glob entry and the match it is at     *)
(*   editor        the editor's side: the content it last sent for each    *)
(*                 document it holds open                                  *)
(*   resp          the response produced by this step, if it was a request *)
(***************************************************************************)
VARIABLES server, components, document_map, ast_map, pending, scan, editor, resp

vars == <<server, components, document_map, ast_map, pending, scan, editor, resp>>

NoResp ==
    [op |-> "none", uri |-> "none", line |-> 0, character |-> 0,
     text |-> <<>>, tree |-> <<>>, outcome |-> "ok", value |-> <<>>]

Idle == [pc |-> "none", folders |-> 0, entry |-> 0, match |-> 0]

\* main: the Backend as LspService::build constructs it.
Init ==
    /\ server = "uninit"
    /\ components = EmptyMap
    /\ document_map = EmptyMap
    /\ ast_map = EmptyMap
    /\ pending = <<>>
    /\ scan = Idle
    /\ editor = EmptyMap
    /\ resp = NoResp

\* Dispatch as it would be if initialize awaited the scan instead of spawning
\* it: no message is handled while the scan runs.
DispatchableAfterScan ==
    server = "running" /\ scan.pc \notin {"spawned", "entries", "file"}

\* Whether the serve loop hands a message to its handler.  The scan is a
\* detached task: nothing here waits for it.
Dispatchable == server = "running"

\* Backend::initialize, given `folders` workspace folders (0: Some(vec![]));
\* `spawn` tells whether params.workspace_folders is Some.
initialize(spawn, folders) ==
    /\ server = "uninit"
    /\ server' = "running"
    /\ scan' = IF spawn THEN [Idle EXCEPT !.pc = "spawned", !.folders = folders]
               ELSE Idle
    /\ resp' = NoResp
    /\ UNCHANGED <<components, document_map, ast_map, pending, editor>>

(***************************************************************************)
(* The scan task.                                                          *)
(***************************************************************************)
ScanAlive == server = "running"

\* The task's first poll: ComponentAnalyzer::new(), workspaces[0], glob.
ScanStart ==
    /\ ScanAlive /\ scan.pc = "spawned"
    /\ scan' = IF scan.folders = 0 THEN [scan EXCEPT !.pc = "panicked"]
               ELSE [scan EXCEPT !.pc = "entries", !.entry = 1]
    /\ resp' = NoResp
    /\ UNCHANGED <<server, components, document_map, ast_map, pending, editor>>

\* analyze_workspace: the glob iterator is exhausted.
ScanFinish ==
    /\ ScanAlive /\ scan.pc = "entries" /\ scan.entry > Len(Workspace)
    /\ scan' = [scan EXCEPT !.pc = "done"]
    /\ resp' = NoResp
    /\ UNCHANGED <<server, components, document_map, ast_map, pending, editor>>

\* analyze_workspace: Err(e) => warn!, and on to the next entry.
ScanGlobError ==
    /\ ScanAlive /\ scan.pc = "entries" /\ scan.entry <= Len(Workspace)
    /\ Workspace[scan.entry].kind = "error"
    /\ scan' = [scan EXCEPT !.entry = @ + 1]
    /\ resp' = NoResp
    /\ UNCHANGED <<server, components, document_map, ast_map, pending, editor>>

\* analyze_file up to its loop: the file is read and parsed and the query run.
ScanReadFile ==
    /\ ScanAlive /\ scan.pc = "entries" /\ scan.entry <= Len(Workspace)
    /\ Workspace[scan.entry].kind = "path"
    /\ scan' = IF Matches(scan.entry) = <<>>
               THEN [scan EXCEPT !.entry = @ + 1]
               ELSE [scan EXCEPT !.pc = "file", !.match = 1]
    /\ resp' = NoResp
    /\ UNCHANGED <<server, components, document_map, ast_map, pending, editor>>

\* analyze_file: fs::read_to_string(..).expect(..) on a file that cannot be
\* read panics, and the panic ends the spawned task.
ScanReadFails ==
    /\ ScanAlive /\ scan.pc = "entries" /\ scan.entry <= Len(Workspace)
    /\ Workspace[scan.entry].kind = "path"
    /\ Workspace[scan.entry].fragile
    /\ scan' = [scan EXCEPT !.pc = "panicked"]
    /\ resp' = NoResp
    /\ UNCHANGED <<server, components, document_map, ast_map, pending, editor>>

\* The insertion as it would be if each file's components replaced the index.
IndexInsertFresh(index, component) ==
    MapInsert(EmptyMap, component.selector, component)

\* The insertion as it would be if an entry already present were kept.
IndexInsertKeepsFirst(index, component) ==
    IF component.selector \in DOMAIN index THEN index
    ELSE MapInsert(index, component.selector, component)

\* component_index.insert(component.selector.clone(), component)
IndexInsert(index, component) ==
    MapInsert(index, component.selector, component)

\* One turn of analyze_file's loop over the component matches.
ScanInsert ==
    /\ ScanAlive /\ scan.pc = "file"
    /\ components' = IndexInsert(components, Matches(scan.entry)[scan.match])
    /\ scan' = IF scan.match = Len(Matches(scan.entry))
               THEN [scan EXCEPT !.pc = "entries", !.entry = @ + 1, !.match = 0]
               ELSE [scan EXCEPT !.match = @ + 1]
    /\ resp' = NoResp
    /\ UNCHANGED <<server, document_map, ast_map, pending, editor>>

ScanStep ==
    \/ ScanStart
    \/ ScanFinish
    \/ ScanGlobError
    \/ ScanReadFile
    \/ ScanReadFails
    \/ ScanInsert

(***************************************************************************)
(* The notification handlers.                                              *)
(***************************************************************************)
RemoveAt(q, i) ==
    [j \in 1..(Len(q) - 1) |-> IF j < i THEN q[j] ELSE q[j + 1]]

\* on_change as it would be if a change re-used the tree the store already
\* holds for the document instead of parsing the new text.
on_change_keeps_tree(docs, asts, uri, text) ==
    [document_map |-> MapInsert(docs, uri, text),
     ast_map |-> IF uri \in DOMAIN asts THEN asts
                 ELSE MapInsert(asts, uri, ParseHtml(text))]

\* on_change as it would be if the store held the latest document only.
on_change_single_slot(docs, asts, uri, text) ==
    [document_map |-> MapInsert(EmptyMap, uri, text),
     ast_map |-> MapInsert(EmptyMap, uri, ParseHtml(text))]

\* Backend::on_change: the two insertions, with no await between them.
on_change(docs, asts, uri, text) ==
    [document_map |-> MapInsert(docs, uri, text),
     ast_map |-> MapInsert(asts, uri, ParseHtml(text))]

\* Backend::did_close up to its await: what it removes from the store.
did_close_store(docs, asts, uri) ==
    [document_map |-> MapRemove(docs, uri), ast_map |-> asts]

\* Backend::did_open up to `log_message(..).await`: the handler is suspended
\* with its parameters.
did_open(uri, text) ==
    /\ Dispatchable /\ uri \notin DOMAIN editor
    /\ Len(pending) < MaxInFlight
    /\ pending' = Append(pending, [uri |-> uri, text |-> text])
    /\ editor' = MapInsert(editor, uri, text)
    /\ resp' = NoResp
    /\ UNCHANGED <<server, components, document_map, ast_map, scan>>

\* Backend::did_change up to `log_message(..).await`.
did_change(uri, text) ==
    /\ Dispatchable /\ uri \in DOMAIN editor
    /\ Len(pending) < MaxInFlight
    /\ pending' = Append(pending, [uri |-> uri, text |-> text])
    /\ editor' = MapInsert(editor, uri, text)
    /\ resp' = NoResp
    /\ UNCHANGED <<server, components, document_map, ast_map, scan>>

\* A suspended did_open / did_change is polled again and calls on_change.
\* Which of the suspended handlers is woken first is up to the executor.
Resume(i) ==
    /\ Dispatchable /\ i \in 1..Len(pending)
    /\ LET s == on_change(document_map, ast_map, pending[i].uri, pending[i].text)
       IN  /\ document_map' = s.document_map
           /\ ast_map' = s.ast_map
    /\ pending' = RemoveAt(pending, i)
    /\ resp' = NoResp
    /\ UNCHANGED <<server, components, scan, editor>>

\* Backend::did_close; after its await nothing is left to do.
did_close(uri) ==
    /\ Dispatchable /\ uri \in DOMAIN editor
    /\ LET s == did_close_store(document_map, ast_map, uri)
       IN  /\ document_map' = s.document_map
           /\ ast_map' = s.ast_map
    /\ editor' = MapRemove(editor, uri)
    /\ resp' = NoResp
    /\ UNCHANGED <<server, components, pending, scan>>

\* did_open / did_change whose await returns at once: the notification is
\* handled to its end before the next message is read.
NotifyNow(uri, text) ==
    /\ Dispatchable /\ pending = <<>>
    /\ LET s == on_change(document_map, ast_map, uri, text)
       IN  /\ document_map' = s.document_map
           /\ ast_map' = s.ast_map
    /\ editor' = MapInsert(editor, uri, text)
    /\ resp' = NoResp
    /\ UNCHANGED <<server, components, pending, scan>>

(***************************************************************************)
(* The request handlers: one step each, from the stores to the response.   *)
(***************************************************************************)
Respond(op, uri, line, character, r) ==
    \E result \in {r} :
        /\ resp' = [op |-> op, uri |-> uri, line |-> line, character |-> character,
                    text |-> MapGet(document_map, uri),
                    tree |-> MapGet(ast_map, uri),
                    outcome |-> result.outcome, value |-> result.value]
        /\ server' = IF result.outcome = "panic" THEN "crashed" ELSE server
        /\ UNCHANGED <<components, document_map, ast_map, pending, scan, editor>>

\* Backend::completion
Completion(uri, line, character) ==
    /\ Dispatchable
    /\ \E order \in Orders(DOMAIN components) :
          Respond("completion", uri, line, character,
                  CompletionResult(MapGet(document_map, uri), MapGet(ast_map, uri),
                                   line, character, components, order))

\* Backend::goto_definition
GotoDefinition(uri, line, character) ==
    /\ Dispatchable
    /\ Respond("goto_definition", uri, line, character,
               DefinitionResult(MapGet(document_map, uri), MapGet(ast_map, uri),
                                line, character, components))

(***************************************************************************)
(* Spec: a session with workspace folders.  The scan runs beside the       *)
(* handlers; the messages about one document are handled one at a time     *)
(* (every notification to its end before the next message), over Texts and *)
(* every position.                                                         *)
(***************************************************************************)
Doc == "u1"

Next ==
    \/ \E folders \in {0, 1} : initialize(TRUE, folders)
    \/ ScanStep
    \/ \E t \in Texts : NotifyNow(Doc, t)
    \/ did_close(Doc)
    \/ \E p \in Positions : Completion(Doc, p[1], p[2])
    \/ \E p \in Positions : GotoDefinition(Doc, p[1], p[2])

Spec == Init /\ [][Next]_vars

(***************************************************************************)
(* SpecAwait: a session without workspace folders (no scan is spawned), in *)
(* which the handlers interleave at their await points, over two           *)
(* documents, SmallTexts and ProbePositions.                               *)
(***************************************************************************)
NextAwait ==
    \/ initialize(FALSE, 0)
    \/ \E u \in Uris, t \in SmallTexts : did_open(u, t)
    \/ \E u \in Uris, t \in SmallTexts : did_change(u, t)
    \/ \E i \in 1..MaxInFlight : Resume(i)
    \/ \E u \in Uris : did_close(u)
    \/ \E u \in Uris, p \in ProbePositions : Completion(u, p[1], p[2])
    \/ \E u \in Uris, p \in ProbePositions : GotoDefinition(u, p[1], p[2])

SpecAwait == Init /\ [][NextAwait]_vars

(***************************************************************************)
(* SpecFrame: the scan beside the handlers of two documents, every         *)
(* notification handled to its end before the next message, over           *)
(* SmallTexts and ProbePositions.                                          *)
(***************************************************************************)
NextFrame ==
    \/ \E folders \in {0, 1} : initialize(TRUE, folders)
    \/ ScanStep
    \/ \E u \in Uris, t \in SmallTexts : NotifyNow(u, t)
    \/ \E u \in Uris : did_close(u)
    \/ \E u \in Uris, p \in ProbePositions : Completion(u, p[1], p[2])
    \/ \E u \in Uris, p \in ProbePositions : GotoDefinition(u, p[1], p[2])

SpecFrame == Init /\ [][NextFrame]_vars

(***************************************************************************)
(* SpecFind: find_node on its own.  The documents are stored as in Spec;   *)
(* find_node is called on the root of a stored tree or on one of its tags  *)
(* (the two nodes the handlers call it on), at every offset up to          *)
(* MaxOffset and with each set of kinds of KindSets: the three the         *)
(* handlers pass, and one whose kinds nest in the tree.                    *)
(***************************************************************************)
MaxOffset == 11

KindSets ==
    {{"tag_name"}, {"start_tag", "self_closing_tag"}, {"attribute_name"},
     {"element", "tag_name"}}

\* Every node of a tree, a tree given as its root.
RECURSIVE NodesOf(_)
NodesOf(n) ==
    {n} \cup UNION {NodesOf(n.children[i]) : i \in 1..Len(n.children)}

\* The nodes the handlers start find_node on.
StartNodes(tree) ==
    {tree} \cup {n \in NodesOf(tree) : n.kind \in {"start_tag", "self_closing_tag"}}

\* One call find_node(node, offset, kinds), its result kept in resp.
FindNode(uri, node, offset, kinds) ==
    /\ Dispatchable /\ uri \in DOMAIN ast_map
    /\ node \in StartNodes(ast_map[uri])
    /\ resp' = [op |-> "find_node", uri |-> uri, line |-> 0, character |-> offset,
                text |-> MapGet(document_map, uri), tree |-> Some(node),
                outcome |-> "ok", value |-> find_node(node, offset, kinds),
                kinds |-> kinds]
    /\ UNCHANGED <<server, components, document_map, ast_map, pending, scan, editor>>

NextFind ==
    \/ initialize(FALSE, 0)
    \/ \E t \in Texts : NotifyNow(Doc, t)
    \/ \E offset \in 0..MaxOffset, kinds \in KindSets :
          \E node \in StartNodes(IF Doc \in DOMAIN ast_map THEN ast_map[Doc]
                                  ELSE ParseHtml(<<>>)) :
             FindNode(Doc, node, offset, kinds)

SpecFind == Init /\ [][NextFind]_vars

(***************************************************************************)
(* Vocabulary of the claims.                                               *)
(***************************************************************************)
Requests == {"completion", "goto_definition"}

\* The suspended handlers that will still write the entry of uri.
PendingFor(u) == {i \in 1..Len(pending) : pending[i].uri = u}

(***************************************************************************)
(* C1.  Whenever the store holds both a text and a tree for a URI, and     *)
(* whenever a request handler has read both, the tree is the parse of      *)
(* exactly that text, under every interleaving of did_open, did_change,    *)
(* did_close and the request handlers at their await points.               *)
(***************************************************************************)
C1_TreeIsParseOfText ==
    /\ \A u \in Uris :
          (u \in DOMAIN document_map /\ u \in DOMAIN ast_map)
             => ast_map[u] = ParseHtml(document_map[u])
    /\ (resp.op \in Requests /\ resp.text # <<>> /\ resp.tree # <<>>)
          => resp.tree[1] = ParseHtml(resp.text[1])

\* A request has read the text "<b>" and the tree of a document while a
\* notification about that document is still suspended at its await.
C1_Witness ==
    /\ resp.op \in Requests /\ resp.text # <<>> /\ resp.tree # <<>>
    /\ PendingFor(resp.uri) # {}
    /\ resp.text[1] = TxB

(***************************************************************************)
(* C2.  Once did_close(uri) has run, and as long as no did_open or         *)
(* did_change for uri has arrived since or is still to run, the store      *)
(* holds neither a text nor a tree under uri.                              *)
(***************************************************************************)
C2_ClosedHoldsNothing ==
    \A u \in Uris :
        (u \notin DOMAIN editor /\ PendingFor(u) = {})
           => (u \notin DOMAIN document_map /\ u \notin DOMAIN ast_map)

(***************************************************************************)
(* C3.  A request for a URI that arrives after a did_open or did_change    *)
(* for it is answered from the text and the tree of the latest such        *)
(* notification: what the handler reads from the store is what the editor  *)
(* last sent.                                                              *)
(***************************************************************************)
C3_RequestSeesLatestNotification ==
    (resp.op \in Requests /\ resp.uri \in DOMAIN editor)
       => /\ resp.text = Some(editor[resp.uri])
          /\ resp.tree = Some(ParseHtml(editor[resp.uri]))

\* The byte offset of the character of index i (past the end of the text,
\* one byte per missing character).
ByteOffset(text, i) ==
    IF i <= Len(text) THEN Len(Utf8(SubSeq(text, 1, i)))
    ELSE Len(Utf8(text)) + (i - Len(text))

\* The place a request designates in the tree of its document: the byte
\* offset of the character at (line, character), if the line exists.
PlaceOf(text, line, character) ==
    IF TryLineToChar(text, line) = <<>> THEN <<>>
    ELSE Some(ByteOffset(text, TryLineToChar(text, line)[1] + character))

\* The text of a node: the characters whose bytes lie in its span.
NodeText(text, n) ==
    LET idx == {i \in 0..(Len(text) - 1) :
                   n.start <= ByteOffset(text, i) /\ ByteOffset(text, i) < n.end}
    IN  IF idx = {} THEN <<>>
        ELSE LET lo == CHOOSE i \in idx : \A j \in idx : i <= j
             IN  SubSeq(text, lo + 1, lo + Cardinality(idx))

\* The selectors the components of the path entries of the workspace declare.
DeclaredIn(i) == {Matches(i)[k].selector : k \in 1..Len(Matches(i))}

PathEntries == {i \in 1..Len(Workspace) : Workspace[i].kind = "path"}

ScanRunning == scan.pc \in {"spawned", "entries", "file"}

(***************************************************************************)
(* C4.  No step removes an entry of the Component Index, and the only step *)
(* that changes the entry of a selector is the scan's insertion of a       *)
(* component with that very selector: insertions of other selectors and    *)
(* the request handlers' lookups leave it as it is.                        *)
(***************************************************************************)
C4_IndexEntriesStay ==
    [][\A s \in DOMAIN components :
          /\ s \in DOMAIN components'
          /\ (components'[s] # components[s])
                => (scan.pc = "file"
                    /\ Matches(scan.entry)[scan.match].selector = s)]_vars

\* A lookup has found an entry while the index holds several selectors and
\* the scan is still inserting.
C4_Witness ==
    /\ resp.op = "goto_definition" /\ resp.value # <<>>
    /\ Cardinality(DOMAIN components) >= 2
    /\ scan.pc = "file"

(***************************************************************************)
(* C5.  When the scan has ended after failing to read one file, every      *)
(* component declared in the other files of the glob result is in the      *)
(* Component Index.                                                        *)
(***************************************************************************)
C5_UnreadableFileIsSkipped ==
    (scan.folders = 1 /\ ~ScanRunning /\ scan.pc # "none")
       => \A i \in PathEntries :
             (scan.pc = "panicked" /\ scan.entry = i)
                \/ DeclaredIn(i) \subseteq DOMAIN components

(***************************************************************************)
(* C6.  Eventual completeness, in its finite form: after initialize with a *)
(* workspace folder, once the scan task has ended (nothing else inserts    *)
(* into the index, so what is missing then is missing for ever), the       *)
(* Component Index holds an entry for every selector declared in the       *)
(* files of the glob result that can always be read.                       *)
(***************************************************************************)
C6_CompleteWhenScanEnds ==
    (scan.folders = 1 /\ scan.pc \in {"done", "panicked"})
       => \A i \in PathEntries :
             Workspace[i].fragile \/ DeclaredIn(i) \subseteq DOMAIN components

C8_RequestsEndNormally ==
    resp.outcome = "ok" /\ server # "crashed"

(***************************************************************************)
(* C9.  Whenever goto_definition returns, it returns the declaration       *)
(* location of component C if and only if the document is open, a tag_name *)
(* node of its tree contains the place of the position, and the index maps *)
(* the text of that node to C; otherwise it returns none.                  *)
(***************************************************************************)
TagNamesAt(text, tree, line, character) ==
    IF PlaceOf(text, line, character) = <<>> THEN {}
    ELSE {n \in NodesOf(tree) :
             n.kind = "tag_name" /\ SpanHolds(n, PlaceOf(text, line, character)[1])}

DeclarationOf(component) ==
    [uri |-> component.file_url, range |-> component.class_name_range]

C9_DefinitionIffTagNameIndexed ==
    (resp.op = "goto_definition" /\ resp.outcome = "ok")
       => \E expected \in
             {IF resp.text = <<>> \/ resp.tree = <<>> THEN {}
              ELSE {DeclarationOf(components[NodeText(resp.text[1], n)]) :
                      n \in {m \in TagNamesAt(resp.text[1], resp.tree[1],
                                              resp.line, resp.character) :
                                NodeText(resp.text[1], m) \in DOMAIN components}}} :
             /\ resp.value # <<>> => resp.value[1] \in expected
             /\ expected # {} => resp.value # <<>>

(***************************************************************************)
(* C10.  Whenever completion returns for a place that lies in a start_tag  *)
(* or self_closing_tag node and in a tag_name child of it, the result is   *)
(* one item per entry of the index, labeled with the entry's selector, of  *)
(* kind keyword and without insertion text (the empty list for an empty    *)
(* index).                                                                 *)
(***************************************************************************)
InTagName(tree, place) ==
    \E t \in NodesOf(tree) :
        /\ t.kind \in {"start_tag", "self_closing_tag"}
        /\ SpanHolds(t, place)
        /\ \E k \in 1..Len(t.children) :
              t.children[k].kind = "tag_name" /\ SpanHolds(t.children[k], place)

C10_TagNameCompletionListsIndex ==
    (/\ resp.op = "completion" /\ resp.outcome = "ok"
     /\ resp.text # <<>> /\ resp.tree # <<>>
     /\ PlaceOf(resp.text[1], resp.line, resp.character) # <<>>
     /\ InTagName(resp.tree[1],
                  PlaceOf(resp.text[1], resp.line, resp.character)[1]))
       => /\ resp.value # <<>>
          /\ \E items \in {IF resp.value = <<>> THEN <<>> ELSE resp.value[1]} :
                /\ Len(items) = Cardinality(DOMAIN components)
                /\ {items[i].label : i \in 1..Len(items)} = DOMAIN components
                /\ \A i \in 1..Len(items) :
                      items[i].kind = "KEYWORD" /\ items[i].insert_text = <<>>

(***************************************************************************)
(* C11.  Whenever completion returns for a place that lies in a start_tag  *)
(* or self_closing_tag node, in no tag_name child of it and in an          *)
(* attribute_name node of it, the result is made from the index entry of   *)
(* the text of the tag's first named child: one item per input, in order,  *)
(* with insertion text [name]="$0", then one item per output, in order,    *)
(* with insertion text (name)="$0"; and no item if the index has no such   *)
(* entry.                                                                  *)
(***************************************************************************)
InAttrName(t, place) ==
    /\ t.kind \in {"start_tag", "self_closing_tag"}
    /\ SpanHolds(t, place)
    /\ \A k \in 1..Len(t.children) :
          t.children[k].kind = "tag_name" => ~SpanHolds(t.children[k], place)
    /\ \E a \in NodesOf(t) : a.kind = "attribute_name" /\ SpanHolds(a, place)

SnippetOf(open, name, close) ==
    <<open>> \o name \o <<close, "=", "\"", "$", "0", "\"">>

\* The labels and insertion texts the claim expects for one component.
AttrExpected(component) ==
    [i \in 1..(Len(component.inputs) + Len(component.outputs)) |->
        IF i <= Len(component.inputs)
        THEN [label |-> component.inputs[i],
              insert_text |-> Some(SnippetOf("[", component.inputs[i], "]"))]
        ELSE [label |-> component.outputs[i - Len(component.inputs)],
              insert_text |->
                 Some(SnippetOf("(", component.outputs[i - Len(component.inputs)], ")"))]]

LabelsAndTexts(items) ==
    [i \in 1..Len(items) |->
        [label |-> items[i].label, insert_text |-> items[i].insert_text]]

C11_AttributeCompletionListsMembers ==
    (/\ resp.op = "completion" /\ resp.outcome = "ok"
     /\ resp.text # <<>> /\ resp.tree # <<>>
     /\ PlaceOf(resp.text[1], resp.line, resp.character) # <<>>)
       => \A t \in NodesOf(resp.tree[1]) :
             InAttrName(t, PlaceOf(resp.text[1], resp.line, resp.character)[1])
                => /\ resp.value # <<>>
                   /\ NamedChild0(t) # <<>>
                   /\ \E sel \in {NodeText(resp.text[1], NamedChild0(t)[1])} :
                         LabelsAndTexts(IF resp.value = <<>> THEN <<>> ELSE resp.value[1])
                            = IF sel \in DOMAIN components
                              THEN AttrExpected(components[sel])
                              ELSE <<>>

(***************************************************************************)
(* C12.  Whenever completion returns for a place where neither context     *)
(* applies or the lookup fails, the result is the empty list: the place is *)
(* in no start_tag or self_closing_tag node; or it is in such a tag but in *)
(* no tag_name child and no attribute_name node of it; or it is in an      *)
(* attribute_name node of a tag whose name is not a selector of the index  *)
(* (in a tag name, every selector is offered whatever the name typed so    *)
(* far: that case is C10's).                                               *)
(***************************************************************************)
TagsAt(tree, place) ==
    {t \in NodesOf(tree) :
        t.kind \in {"start_tag", "self_closing_tag"} /\ SpanHolds(t, place)}

InTagNameOf(t, place) ==
    \E k \in 1..Len(t.children) :
        t.children[k].kind = "tag_name" /\ SpanHolds(t.children[k], place)

InAttrNameOf(t, place) ==
    \E a \in NodesOf(t) : a.kind = "attribute_name" /\ SpanHolds(a, place)

NoContext(text, tree, place) ==
    \/ TagsAt(tree, place) = {}
    \/ \A t \in TagsAt(tree, place) :
          ~InTagNameOf(t, place) /\ ~InAttrNameOf(t, place)
    \/ /\ \A t \in TagsAt(tree, place) : ~InTagNameOf(t, place)
       /\ \E t \in TagsAt(tree, place) :
             /\ InAttrNameOf(t, place)
             /\ NamedChild0(t) # <<>>
             /\ NodeText(text, NamedChild0(t)[1]) \notin DOMAIN components

C12_NoContextGivesEmptyList ==
    (/\ resp.op = "completion" /\ resp.outcome = "ok"
     /\ resp.text # <<>> /\ resp.tree # <<>>
     /\ PlaceOf(resp.text[1], resp.line, resp.character) # <<>>
     /\ NoContext(resp.text[1], resp.tree[1],
                  PlaceOf(resp.text[1], resp.line, resp.character)[1]))
       => resp.value = Some(<<>>)

(***************************************************************************)
(* C13.  find_node(root, offset, {tag_name}), for the root of a stored     *)
(* tree, returns the tag_name node N for every offset strictly inside N's  *)
(* span (N.start < offset < N.end), and returns none for every offset that *)
(* lies outside the span of every node of the tree.                        *)
(***************************************************************************)
C13_FindNodeStrictlyInside ==
    (/\ resp.op = "find_node" /\ resp.kinds = {"tag_name"}
     /\ resp.tree[1].kind = "fragment")
       => /\ \A n \in NodesOf(resp.tree[1]) :
                (/\ n.kind = "tag_name"
                 /\ n.start < resp.character /\ resp.character < n.end)
                   => resp.value = Some(n)
          /\ (\A n \in NodesOf(resp.tree[1]) : ~SpanHolds(n, resp.character))
                => resp.value = <<>>

\* find_node has returned a tag_name node for an offset strictly inside it,
\* in a tree whose root starts after a multi-byte character.
C13_Witness ==
    /\ resp.op = "find_node" /\ resp.kinds = {"tag_name"}
    /\ resp.tree[1].kind = "fragment" /\ resp.text = Some(TxWide2)
    /\ resp.value # <<>>
    /\ resp.value[1].start < resp.character /\ resp.character < resp.value[1].end

(***************************************************************************)
(* C14.  The Component Index maps each selector to one component, the one  *)
(* inserted last: in every state, its selectors are those of the           *)
(* components the scan has inserted so far, and each selector's entry is   *)
(* the latest of the inserted components with that selector, with all of   *)
(* its fields.                                                             *)
(***************************************************************************)
\* The matches the scan has inserted so far, as (entry, match) pairs.
AllMatches ==
    UNION {{<<i, k>> : k \in 1..Len(Matches(i))} : i \in PathEntries}

InsertedSoFar ==
    {p \in AllMatches :
        p[1] < scan.entry \/ (p[1] = scan.entry /\ p[2] < scan.match)}

Later(p, q) == p[1] > q[1] \/ (p[1] = q[1] /\ p[2] >= q[2])

C14_LastWriterWins ==
    /\ DOMAIN components = {Matches(p[1])[p[2]].selector : p \in InsertedSoFar}
    /\ \A p \in InsertedSoFar :
          (\A q \in InsertedSoFar :
              Matches(q[1])[q[2]].selector = Matches(p[1])[p[2]].selector
                 => Later(p, q))
             => components[Matches(p[1])[p[2]].selector] = Matches(p[1])[p[2]]

\* Both overwrites have happened: selector ab of a.ts by a class of c.ts, and
\* selector c by a later class of the same file.
C14_Witness ==
    /\ NmAB \in DOMAIN components /\ NmC \in DOMAIN components
    /\ components[NmAB].file_url = "file:///w/src/c.ts"
    /\ components[NmAB].inputs = <<<<"x">>>>
    /\ components[NmC].class_name_range = ClassC2.class_name_range
    /\ components[NmC].outputs = <<>>

C16_FindNodeInclusiveBounds ==
    (/\ resp.op = "find_node" /\ resp.kinds = {"tag_name"}
     /\ resp.tree[1].kind \in {"start_tag", "self_closing_tag"})
       => \A k \in 1..Len(resp.tree[1].children) :
             (/\ resp.tree[1].children[k].kind = "tag_name"
              /\ resp.tree[1].children[k].start <= resp.character
              /\ resp.character <= resp.tree[1].children[k].end)
                => resp.value = Some(resp.tree[1].children[k])

(***************************************************************************)
(* C17.  For every component of the index, taken from its class in the     *)
(* workspace: its inputs are the members whose decorator is named exactly  *)
(* Input, its outputs the members whose decorator is named exactly Output, *)
(* each list in source order; no other member is in either list.           *)
(***************************************************************************)
IsNamed(member, dec) == member.dec = dec

NamesOf(members) == [i \in 1..Len(members) |-> members[i].name]

DecoratedExactly(members, dec) ==
    LET Test(m) == IsNamed(m, dec)
    IN  NamesOf(SelectSeq(members, Test))

C17_MembersClassifiedByExactName ==
    \A s \in DOMAIN components :
       \A i \in PathEntries :
          \A j \in 1..Len(Workspace[i].classes) :
             (/\ Workspace[i].path = components[s].file_url
              /\ Workspace[i].classes[j].class_name_range
                    = components[s].class_name_range)
                => /\ components[s].inputs
                         = DecoratedExactly(Workspace[i].classes[j].members, NmInput)
                   /\ components[s].outputs
                         = DecoratedExactly(Workspace[i].classes[j].members, NmOutput)

(***************************************************************************)
(* C18.  In every request on an open document whose line exists, the       *)
(* offset the handler computes (character index of the line start plus the *)
(* column) finds the node that lies at the requested line and column (a    *)
(* column past the end of the line standing for the end of the line), and  *)
(* the text the handler reads for that node with the node's span is the    *)
(* node's own text.                                                        *)
(***************************************************************************)
\* The number of characters of a line, its line break left out.
LineLength(text, start) ==
    Cardinality({i \in (start + 1)..Len(text) :
                    \A j \in (start + 1)..i : text[j] # "\n"})

\* The byte offset of the place (line, column) of a text.
LspPlace(text, line, character) ==
    ByteOffset(text,
               TryLineToChar(text, line)[1]
                  + (IF character <= LineLength(text, TryLineToChar(text, line)[1])
                     THEN character
                     ELSE LineLength(text, TryLineToChar(text, line)[1])))

\* The kinds the handler of a request looks for first.
KindsOf(op) ==
    IF op = "goto_definition" THEN {"tag_name"} ELSE {"start_tag", "self_closing_tag"}

C18_OffsetDesignatesSamePlace ==
    (/\ resp.op \in Requests /\ resp.text # <<>> /\ resp.tree # <<>>
     /\ TryLineToChar(resp.text[1], resp.line) # <<>>)
       => \E found \in {find_node(resp.tree[1],
                                  TryLineToChar(resp.text[1], resp.line)[1]
                                     + resp.character,
                                  KindsOf(resp.op))} :
             /\ found = find_node(resp.tree[1],
                                  LspPlace(resp.text[1], resp.line, resp.character),
                                  KindsOf(resp.op))
             /\ found # <<>>
                   => /\ SliceInBounds(resp.text[1], found[1].start, found[1].end)
                      /\ Slice(resp.text[1], found[1].start, found[1].end)
                            = NodeText(resp.text[1], found[1])

(***************************************************************************)
(* C19.  Once every did_open / did_change handler has completed, the text  *)
(* and the tree stored for an open document are those of the notification  *)
(* the server received last for it.                                        *)
(***************************************************************************)
C19_LastNotificationWins ==
    \A u \in DOMAIN editor :
       (pending = <<>>)
          => /\ MapGet(document_map, u) = Some(editor[u])
             /\ MapGet(ast_map, u) = Some(ParseHtml(editor[u]))

(***************************************************************************)
(* C20.  Frame conditions, for every step: a step that answers a request   *)
(* changes neither the Component Index nor the Document Store; a step that *)
(* changes the store entries of one URI (did_open, did_change, did_close)  *)
(* changes neither the index nor the entries of any other URI; a step of   *)
(* the scan changes nothing of the Document Store.                         *)
(***************************************************************************)
EntriesOf(docs, asts, u) == <<MapGet(docs, u), MapGet(asts, u)>>

C20_FrameConditions ==
    [][/\ (resp'.op \in Requests)
             => /\ components' = components
                /\ document_map' = document_map /\ ast_map' = ast_map
       /\ \A u \in Uris :
             (EntriesOf(document_map', ast_map', u)
                 # EntriesOf(document_map, ast_map, u))
                => /\ components' = components
                   /\ \A v \in Uris \ {u} :
                         EntriesOf(document_map', ast_map', v)
                            = EntriesOf(document_map, ast_map, v)
       /\ (scan' # scan)
             => (document_map' = document_map /\ ast_map' = ast_map)]_vars

\* A request has been answered while the store holds different texts for the
\* two documents and the scan is in the middle of a file.
C20_Witness ==
    /\ resp.op \in Requests
    /\ MapGet(document_map, "u1") = Some(TxTag)
    /\ MapGet(document_map, "u2") = Some(TxB)
    /\ components # EmptyMap /\ scan.pc = "file"

====
